---- MODULE Spec2Model ----
(***************************************************************************)
(* Model of src/main.py: a voice-triggered scene-description assistant.    *)
(* Three threads share a speech queue and a capture flag:                  *)
(*   - the main thread (module start-up code, then main(): the capture     *)
(*     loop and the shutdown sequence of its finally block),               *)
(*   - the command listener thread (command_listener),                     *)
(*   - the text-to-speech worker thread (TTSThread.run).                   *)
(* Every step of the model is one access to shared state (one bytecode-    *)
(* level read or write of a global, one queue.Queue method call), so the   *)
(* interleavings of the model are the interleavings of the threads.        *)
(***************************************************************************)
EXTENDS Integers, Sequences, FiniteSets, TLC

(***************************************************************************)
(* Bounds of the model.                                                    *)
(***************************************************************************)
MaxVoice == 1       \* trigger phrases the recognizer may return
MaxManual == 1      \* times the 'c' key may be pressed
MaxBoxes == 1       \* boxes the detector returns for one frame
FrameWidth == 6     \* frame.shape[1] of the camera frames
FrameHeight == 4    \* frame.shape[0] of the camera frames
MaxCaptionBoxes == 5  \* boxes of one frame in the caption specification
SpatialWidth == 6   \* frame width and largest x in the spatial specification
SpatialHeight == 10 \* frame height and largest y in the spatial specification

(***************************************************************************)
(* Program constants.                                                      *)
(***************************************************************************)
QueueCap == 2       \* speak(): qsize() < 2
ConfPercent == 50   \* conf > 0.5, confidences held in percent
MaxItems == 3       \* detections[:3]

VARIABLES
    speech_queue,        \* queue.Queue(): the items, head first
    unfinished_tasks,    \* queue.Queue.unfinished_tasks
    capture_requested,   \* global flag
    listening_status,    \* global status string
    last_analysis_text,  \* main()'s local, shown in the overlay
    cap_released,        \* cap.release() has been called
    main_pc,             \* position of the main thread
    main_text,           \* argument of the speak() call main is in
    main_ret,            \* where main continues after speak()
    detections,          \* main()'s local list of phrases
    lis_pc,              \* position of the listener thread
    lis_text,            \* the listener's decoded text
    tts_pc,              \* position of the TTS worker
    tts_text,            \* the text the worker dequeued last
    tts_id,              \* history: the tag of that text
    \* history variables, read by the properties only
    listenerSets,        \* times the listener assigned capture_requested True
    manualSets,          \* times the 'c' key assigned capture_requested True
    dets,                \* detector invocations
    iterDets,            \* detector invocations in the current iteration
    iterObserved,        \* the current iteration read the flag as True
    pending,             \* sets since the last clear (line 171)
    consumed,            \* value of pending at the clear of this iteration
    accepted,            \* utterances put into the queue so far; the k-th
                         \* one put carries the tag k
    handed,              \* tags of the utterances handed to the synthesizer
    dropped,             \* some speak() call has discarded its text
    closeAccepted,       \* accepted when the sentinel was put
    pendingAtClose,      \* tags of the utterances queued at that moment
    sentinel_put,        \* speech_queue.put(None) has been called
    \* one call of a function taken on its own (the function specifications)
    fn_in,               \* the arguments of the call
    fn_out,              \* its locals and its result
    fn_pc                \* position within the call

vars == <<speech_queue, unfinished_tasks, capture_requested, listening_status,
          last_analysis_text, cap_released, main_pc, main_text, main_ret,
          detections, lis_pc, lis_text, tts_pc,
          tts_text, tts_id,
          listenerSets, manualSets, dets, iterDets, iterObserved,
          pending, consumed, accepted, handed, dropped, closeAccepted,
          pendingAtClose, sentinel_put, fn_in, fn_out, fn_pc>>

mainVars == <<last_analysis_text, cap_released, main_pc, main_text, main_ret,
              detections>>
lisVars == <<listening_status, lis_pc, lis_text>>
ttsVars == <<tts_pc, tts_text, tts_id>>
flagHist == <<listenerSets, manualSets, pending>>
fnVars == <<fn_in, fn_out, fn_pc>>
progVars == <<speech_queue, unfinished_tasks, capture_requested,
              listening_status, last_analysis_text, cap_released, main_pc,
              main_text, main_ret, detections, lis_pc, lis_text, tts_pc,
              tts_text, tts_id, listenerSets, manualSets, dets, iterDets,
              iterObserved, pending, consumed, accepted, handed, dropped,
              closeAccepted, pendingAtClose, sentinel_put>>

\* times capture_requested was assigned True
sets == listenerSets + manualSets
iterHist == <<dets, iterDets, iterObserved, consumed>>

\* the history of one iteration is forgotten when the iteration ends
IterEnds == iterDets' = 0 /\ iterObserved' = FALSE /\ consumed' = 0
closeHist == <<closeAccepted, pendingAtClose, sentinel_put>>

(***************************************************************************)
(* Texts. An utterance is a record, so that the fixed messages, the        *)
(* captions built from detections and the None sentinel are comparable.    *)
(***************************************************************************)
Utt(s) == [kind |-> s, n |-> 0, items |-> <<>>]
NoneVal == Utt("None")
StartupText == Utt("System online. Waiting for command.")
ReadyText == Utt("Camera is ready. Please say yes to capture the scene.")
AckText == Utt("Okay, analyzing scene.")
NoObjectsText == Utt("I analyzed the scene but did not detect any clear objects.")
NoObjectsShown == Utt("No objects found.")
WaitingText == Utt("Waiting for command...")

Min(a, b) == IF a < b THEN a ELSE b


(***************************************************************************)
(* Decoded texts: sequences of characters, so that str.lower() and the     *)
(* substring test `word in text` are computed, not assumed.                *)
(***************************************************************************)
LowerChar(c) ==
    CASE c = "Y" -> "y"
      [] c = "E" -> "e"
      [] c = "S" -> "s"
      [] c = "C" -> "c"
      [] c = "A" -> "a"
      [] c = "N" -> "n"
      [] OTHER -> c

Lower(text) == [i \in 1..Len(text) |-> LowerChar(text[i])]

Contains(text, word) ==
    \E i \in 1..(Len(text) - Len(word) + 1) :
        SubSeq(text, i, i + Len(word) - 1) = word

WordYes == <<"y", "e", "s">>
WordCapture == <<"c", "a", "p", "t", "u", "r", "e">>
WordScan == <<"s", "c", "a", "n">>

IsTrigger_WholeText(text) == text \in {WordYes, WordCapture, WordScan}

IsTrigger(text) ==
    Contains(text, WordYes) \/ Contains(text, WordCapture) \/ Contains(text, WordScan)

\* what recognize_google may return in this model
HeardTexts ==
    { <<"Y", "e", "s">>, <<"n", "o">>, <<"s", "c", "a", "n">>,
      <<"e", "y", "e", "s">> }

(***************************************************************************)
(* get_spatial_description. Coordinates are integers (astype(int)); the    *)
(* float comparisons are decided exactly by cross-multiplication:          *)
(*   (x1+x2)/2 < W/3      iff  3*(x1+x2) < 2*W                             *)
(*   (x1+x2)/2 > 2*W/3    iff  3*(x1+x2) > 4*W                             *)
(*   a/f > 15/100, a/f < 5/100 by the sign of f.                           *)
(***************************************************************************)
\* the thirds with the boundaries given to the sides: <= and >=
HPos_Inclusive(box, frame_width) ==
    IF 3 * (box[1] + box[3]) <= 2 * frame_width THEN "on the left"
    ELSE IF 3 * (box[1] + box[3]) >= 4 * frame_width THEN "on the right"
    ELSE "in the center"

HPos(box, frame_width) ==
    IF 3 * (box[1] + box[3]) < 2 * frame_width THEN "on the left"
    ELSE IF 3 * (box[1] + box[3]) > 4 * frame_width THEN "on the right"
    ELSE "in the center"

FrameArea(frame_width, frame_height) == frame_width * frame_height
BoxArea(box) == (box[3] - box[1]) * (box[4] - box[2])

\* box_area / frame_area > num / 100, for frame_area # 0
RatioAbove(box_area, frame_area, num) ==
    IF frame_area > 0 THEN 100 * box_area > num * frame_area
    ELSE 100 * box_area < num * frame_area

\* box_area / frame_area < num / 100, for frame_area # 0
RatioBelow(box_area, frame_area, num) ==
    IF frame_area > 0 THEN 100 * box_area < num * frame_area
    ELSE 100 * box_area > num * frame_area

NearPercent == 15
FarPercent == 5

\* the thresholds with the boundaries given to near and far: >= and <=
Proximity_Inclusive(box, frame_width, frame_height) ==
    LET frame_area == FrameArea(frame_width, frame_height)
        box_area == BoxArea(box)
    IN  IF frame_area = 0 THEN "ZeroDivisionError"
        ELSE IF ~RatioBelow(box_area, frame_area, NearPercent) THEN "near"
        ELSE IF ~RatioAbove(box_area, frame_area, FarPercent) THEN "far"
        ELSE "at a medium distance"

Proximity(box, frame_width, frame_height) ==
    LET frame_area == FrameArea(frame_width, frame_height)
        box_area == BoxArea(box)
    IN  IF frame_area = 0 THEN "ZeroDivisionError"
        ELSE IF RatioAbove(box_area, frame_area, NearPercent) THEN "near"
        ELSE IF RatioBelow(box_area, frame_area, FarPercent) THEN "far"
        ELSE "at a medium distance"

get_spatial_description(box, frame_width, frame_height) ==
    [h_pos |-> HPos(box, frame_width),
     proximity |-> Proximity(box, frame_width, frame_height)]

(***************************************************************************)
(* The detector's output for one frame and the caption built from it.      *)
(***************************************************************************)
BoxChoices ==
    { [label |-> "person", xyxy |-> <<0, 0, 3, 4>>, conf |-> 90],
      [label |-> "cup", xyxy |-> <<4, 1, 6, 2>>, conf |-> 40] }

SeqsUpTo(S, n) == UNION { [1..k -> S] : k \in 0..n }

DetectorResults == SeqsUpTo(BoxChoices, MaxBoxes)

Confident(b) == b.conf > ConfPercent

Phrase(b, width, height) ==
    [label |-> b.label, where |-> get_spatial_description(b.xyxy, width, height)]

\* lines 175-191: the phrases of the boxes with conf > 0.5, in detector order
RECURSIVE BuildDetections(_, _, _)
BuildDetections(results, width, height) ==
    IF results = <<>> THEN <<>>
    ELSE LET b == Head(results)
             rest == BuildDetections(Tail(results), width, height)
         IN  IF Confident(b) THEN <<Phrase(b, width, height)>> \o rest ELSE rest

\* a caption that joins every phrase: ". ".join(detections)
FullCaption_NoLimit(dl) == [kind |-> "I found", n |-> Len(dl), items |-> dl]

\* lines 197-200: main_desc + ". ".join(detections[:3])
FullCaption(dl) ==
    [kind |-> "I found", n |-> Len(dl), items |-> SubSeq(dl, 1, Min(MaxItems, Len(dl)))]

\* lines 194-205: what is spoken and what is shown
SpokenCaption(dl) == IF dl # <<>> THEN FullCaption(dl) ELSE NoObjectsText
\* the overlay shows what was spoken
ShownCaption_Spoken(dl) == SpokenCaption(dl)

ShownCaption(dl) == IF dl # <<>> THEN FullCaption(dl) ELSE NoObjectsShown

(***************************************************************************)
(* queue.Queue (unbounded, FIFO) and speak()'s depth test.                 *)
(* An item of the model's queue is the text with a history tag: 0 for the  *)
(* sentinel, k for the k-th utterance put.                                 *)
(***************************************************************************)
Item(text, tag) == [text |-> text, id |-> tag]
qsize(q) == Len(q)
\* a LIFO queue: put at the front
QueuePut_Front(q, item) == <<item>> \o q

QueuePut(q, item) == Append(q, item)
QueueFront(q) == Head(q)
QueueRest(q) == Tail(q)
\* speak() with the off-by-one test qsize() <= 2
HasRoom_Inclusive(q) == qsize(q) <= QueueCap

HasRoom(q) == qsize(q) < QueueCap

Utterances(q) == SelectSeq(q, LAMBDA x : x.text # NoneVal)
Tags(q) == { q[i].id : i \in 1..Len(q) } \ {0}


(***************************************************************************)
(* Initial state: lines 41-45 have run (queue created, TTS worker          *)
(* started); the main thread is about to run line 54-55.                   *)
(***************************************************************************)
\* the flag initialised to True
InitialCaptureRequested_True == TRUE

\* line 59: capture_requested = False
InitialCaptureRequested == FALSE

InitProgram ==
    /\ speech_queue = <<>>
    /\ unfinished_tasks = 0
    /\ capture_requested = InitialCaptureRequested
    /\ listening_status = "Initializing..."
    /\ last_analysis_text = WaitingText
    /\ cap_released = FALSE
    /\ main_pc = "startup_put"
    /\ main_text = NoneVal
    /\ main_ret = "none"
    /\ detections = <<>>
    /\ lis_pc = "unstarted"
    /\ lis_text = <<>>
    /\ tts_pc = "get"
    /\ tts_text = NoneVal
    /\ tts_id = 0
    /\ listenerSets = 0
    /\ manualSets = 0
    /\ dets = 0
    /\ iterDets = 0
    /\ iterObserved = FALSE
    /\ pending = 0
    /\ consumed = 0
    /\ accepted = 0
    /\ handed = {}
    /\ dropped = FALSE
    /\ closeAccepted = 0
    /\ pendingAtClose = {}
    /\ sentinel_put = FALSE

Init ==
    /\ InitProgram
    /\ fn_in = <<>>
    /\ fn_out = <<>>
    /\ fn_pc = "idle"

(***************************************************************************)
(* The TTS worker, TTSThread.run.                                          *)
(***************************************************************************)
\* lines 21-23: text = self.queue.get(); if text is None: break
TtsGet ==
    /\ tts_pc = "get"
    /\ speech_queue # <<>>
    /\ tts_text' = QueueFront(speech_queue).text
    /\ tts_id' = QueueFront(speech_queue).id
    /\ speech_queue' = QueueRest(speech_queue)
    /\ tts_pc' = IF QueueFront(speech_queue).text = NoneVal THEN "exited" ELSE "say"
    /\ UNCHANGED <<fnVars, unfinished_tasks, capture_requested, mainVars, lisVars,
                   flagHist, iterHist, accepted, handed, dropped,
                   closeHist>>

\* no handler: the exception ends the thread
AfterSayError_Dies == "exited"

\* where the worker goes when the synthesizer raised: the handler of
\* lines 35-36
AfterSayError == "except"

\* lines 26-34, 37-38: the synthesizer speaks the text; finally:
\* self.queue.task_done(); back to line 20
TtsSay ==
    /\ tts_pc = "say"
    /\ handed' = handed \cup {tts_id}
    /\ unfinished_tasks' = unfinished_tasks - 1
    /\ tts_text' = NoneVal
    /\ tts_id' = 0
    /\ tts_pc' = "get"
    /\ UNCHANGED <<fnVars, speech_queue, capture_requested, mainVars, lisVars,
                   flagHist, iterHist, accepted, dropped, closeHist>>

\* lines 26-35: the synthesizer raises an Exception, which is caught
TtsSayFails ==
    /\ tts_pc = "say"
    /\ handed' = handed \cup {tts_id}
    /\ tts_pc' = AfterSayError
    /\ UNCHANGED <<fnVars, speech_queue, unfinished_tasks, capture_requested, mainVars,
                   lisVars, tts_text, tts_id, flagHist, iterHist, accepted,
                   dropped, closeHist>>

\* lines 36-38: print("TTS Thread Error: ..."); finally:
\* self.queue.task_done(); back to line 20
TtsExcept ==
    /\ tts_pc = "except"
    /\ unfinished_tasks' = unfinished_tasks - 1
    /\ tts_text' = NoneVal
    /\ tts_id' = 0
    /\ tts_pc' = "get"
    /\ UNCHANGED <<fnVars, speech_queue, capture_requested, mainVars, lisVars,
                   flagHist, iterHist, accepted, handed, dropped, closeHist>>

(***************************************************************************)
(* The listener thread, command_listener.                                  *)
(***************************************************************************)
\* the handler retries the microphone
AfterMicFailure_Retry == "open"

\* lis_pc after the OSError handler of lines 99-101: the function returns
AfterMicFailure == "nomic"

\* lines 67-71: the microphone opens; the status becomes "Listening..."
LisMicOpens ==
    /\ lis_pc = "open"
    /\ listening_status' = "Listening for 'Yes'..."
    /\ lis_pc' = "listen"
    /\ UNCHANGED <<fnVars, speech_queue, unfinished_tasks, capture_requested, mainVars,
                   lis_text, ttsVars, flagHist, iterHist, accepted,
                   handed, dropped, closeHist>>

\* lines 67-68, 99-101: sr.Microphone() raises OSError
LisMicFails ==
    /\ lis_pc = "open"
    /\ listening_status' = "No Microphone Found"
    /\ lis_pc' = AfterMicFailure
    /\ UNCHANGED <<fnVars, speech_queue, unfinished_tasks, capture_requested, mainVars,
                   lis_text, ttsVars, flagHist, iterHist, accepted,
                   handed, dropped, closeHist>>

\* line 77: listen() returns audio
LisListenAudio ==
    /\ lis_pc = "listen"
    /\ lis_pc' = "recognize"
    /\ UNCHANGED <<fnVars, speech_queue, unfinished_tasks, capture_requested, mainVars,
                   listening_status, lis_text, ttsVars, flagHist, iterHist,
                   accepted, handed, dropped, closeHist>>

\* lines 77, 93-94: listen() raises WaitTimeoutError; just loop
LisListenTimeout ==
    /\ lis_pc = "listen"
    /\ lis_pc' = "listen"
    /\ UNCHANGED <<fnVars, speech_queue, unfinished_tasks, capture_requested, mainVars,
                   listening_status, lis_text, ttsVars, flagHist, iterHist,
                   accepted, handed, dropped, closeHist>>

\* lines 77, 95-97: listen() raises another Exception; print, then sleep
LisListenError ==
    /\ lis_pc = "listen"
    /\ lis_pc' = "sleep"
    /\ UNCHANGED <<fnVars, speech_queue, unfinished_tasks, capture_requested, mainVars,
                   listening_status, lis_text, ttsVars, flagHist, iterHist,
                   accepted, handed, dropped, closeHist>>

\* line 97: time.sleep(1) returns
LisSleep ==
    /\ lis_pc = "sleep"
    /\ lis_pc' = "listen"
    /\ UNCHANGED <<fnVars, speech_queue, unfinished_tasks, capture_requested, mainVars,
                   listening_status, lis_text, ttsVars, flagHist,
                   iterHist, accepted, handed, dropped, closeHist>>

\* lines 80-81: recognize_google returns a text, lower-cased
LisRecognize ==
    /\ lis_pc = "recognize"
    /\ \E t \in HeardTexts :
           /\ IsTrigger(Lower(t)) => listenerSets < MaxVoice
           /\ lis_text' = Lower(t)
    /\ lis_pc' = "match"
    /\ UNCHANGED <<fnVars, speech_queue, unfinished_tasks, capture_requested, mainVars,
                   listening_status, ttsVars, flagHist, iterHist,
                   accepted, handed, dropped, closeHist>>

\* lines 80, 88-89: UnknownValueError; pass
LisUnknownValue ==
    /\ lis_pc = "recognize"
    /\ lis_pc' = "listen"
    /\ UNCHANGED <<fnVars, speech_queue, unfinished_tasks, capture_requested, mainVars,
                   listening_status, lis_text, ttsVars, flagHist,
                   iterHist, accepted, handed, dropped, closeHist>>

\* lines 80, 90: recognize_google raises RequestError
LisRequestError ==
    /\ lis_pc = "recognize"
    /\ lis_pc' = "log_request_error"
    /\ UNCHANGED <<fnVars, speech_queue, unfinished_tasks, capture_requested, mainVars,
                   listening_status, lis_text, ttsVars, flagHist,
                   iterHist, accepted, handed, dropped, closeHist>>

\* where the listener goes after the print of line 91
AfterRequestErrorLog == "listen"

\* line 91: print("Could not request results; ..."), then back to line 73
LisLogRequestError ==
    /\ lis_pc = "log_request_error"
    /\ lis_pc' = AfterRequestErrorLog
    /\ UNCHANGED <<fnVars, speech_queue, unfinished_tasks, capture_requested, mainVars,
                   listening_status, lis_text, ttsVars, flagHist, iterHist,
                   accepted, handed, dropped, closeHist>>

\* lines 80, 95-97: any other Exception of recognize_google reaches the
\* outer handler; print, then sleep
LisRecognizeError ==
    /\ lis_pc = "recognize"
    /\ lis_pc' = "sleep"
    /\ UNCHANGED <<fnVars, speech_queue, unfinished_tasks, capture_requested, mainVars,
                   listening_status, lis_text, ttsVars, flagHist,
                   iterHist, accepted, handed, dropped, closeHist>>

\* line 83: if "yes" in text or "capture" in text or "scan" in text
LisMatch ==
    /\ lis_pc = "match"
    /\ lis_pc' = IF IsTrigger(lis_text) THEN "set_flag" ELSE "listen"
    /\ lis_text' = <<>>
    /\ UNCHANGED <<fnVars, speech_queue, unfinished_tasks, capture_requested, mainVars,
                   listening_status, ttsVars, flagHist, iterHist,
                   accepted, handed, dropped, closeHist>>

\* line 85: capture_requested = True
LisSetFlag ==
    /\ lis_pc = "set_flag"
    /\ capture_requested' = TRUE
    /\ listenerSets' = listenerSets + 1
    /\ pending' = pending + 1
    /\ lis_pc' = "speak_check"
    /\ UNCHANGED <<fnVars, speech_queue, unfinished_tasks, mainVars, listening_status,
                   lis_text, ttsVars, manualSets, iterHist, accepted, handed, dropped,
                   closeHist>>

\* lines 86, 50: speak("Okay, analyzing scene."): if speech_queue.qsize() < 2
LisSpeakCheck ==
    /\ lis_pc = "speak_check"
    /\ IF HasRoom(speech_queue)
       THEN lis_pc' = "speak_put" /\ dropped' = dropped
       ELSE lis_pc' = "listen" /\ dropped' = TRUE
    /\ UNCHANGED <<fnVars, speech_queue, unfinished_tasks, capture_requested, mainVars,
                   listening_status, lis_text, ttsVars, flagHist,
                   iterHist, accepted, handed, closeHist>>

\* line 51: speech_queue.put(text)
LisSpeakPut ==
    /\ lis_pc = "speak_put"
    /\ speech_queue' = QueuePut(speech_queue, Item(AckText, accepted + 1))
    /\ unfinished_tasks' = unfinished_tasks + 1
    /\ accepted' = accepted + 1
    /\ lis_pc' = "listen"
    /\ UNCHANGED <<fnVars, capture_requested, mainVars, listening_status, lis_text,
                   ttsVars, flagHist, iterHist, handed, dropped,
                   closeHist>>


(***************************************************************************)
(* The main thread: module start-up code, then main().                     *)
(***************************************************************************)
\* lines 54-55: speech_queue.put("System online. Waiting for command.")
MainStartupPut ==
    /\ main_pc = "startup_put"
    /\ speech_queue' = QueuePut(speech_queue, Item(StartupText, accepted + 1))
    /\ unfinished_tasks' = unfinished_tasks + 1
    /\ accepted' = accepted + 1
    /\ main_pc' = "start_listener"
    /\ UNCHANGED <<fnVars, capture_requested, last_analysis_text, cap_released,
                   main_text, main_ret, detections, lisVars, ttsVars,
                   flagHist, iterHist, handed, dropped, closeHist>>

\* lines 104-105: listener_thread.start()
MainStartListener ==
    /\ main_pc = "start_listener"
    /\ lis_pc = "unstarted"
    /\ lis_pc' = "open"
    /\ main_pc' = "load_model"
    /\ UNCHANGED <<fnVars, speech_queue, unfinished_tasks, capture_requested,
                   last_analysis_text, cap_released, main_text, main_ret,
                   detections, listening_status, lis_text, ttsVars, flagHist, iterHist, accepted, handed, dropped,
                   closeHist>>

\* lines 139-150: the model loads and the camera opens, or main returns
MainSetup ==
    /\ main_pc = "load_model"
    /\ \E ok \in BOOLEAN : main_pc' = IF ok THEN "speak_ready" ELSE "returned"
    /\ UNCHANGED <<fnVars, speech_queue, unfinished_tasks, capture_requested,
                   last_analysis_text, cap_released, main_text, main_ret,
                   detections, lisVars, ttsVars, flagHist, iterHist,
                   accepted, handed, dropped, closeHist>>

\* line 153: speak("Camera is ready. ...") is called
MainSpeakReady ==
    /\ main_pc = "speak_ready"
    /\ main_text' = ReadyText
    /\ main_ret' = "read_frame"
    /\ main_pc' = "speak_check"
    /\ UNCHANGED <<fnVars, speech_queue, unfinished_tasks, capture_requested,
                   last_analysis_text, cap_released, detections, lisVars,
                   ttsVars, flagHist, iterHist, accepted, handed, dropped,
                   closeHist>>

\* line 50, called from main: if speech_queue.qsize() < 2
MainSpeakCheck ==
    /\ main_pc = "speak_check"
    /\ IF HasRoom(speech_queue)
       THEN main_pc' = "speak_put" /\ dropped' = dropped
                /\ UNCHANGED <<main_text, main_ret>>
       ELSE main_pc' = main_ret /\ dropped' = TRUE
                /\ main_text' = NoneVal /\ main_ret' = "none"
    /\ UNCHANGED <<fnVars, speech_queue, unfinished_tasks, capture_requested,
                   last_analysis_text, cap_released, detections, lisVars,
                   ttsVars, flagHist, iterHist, accepted, handed, closeHist>>

\* line 51, called from main: speech_queue.put(text)
MainSpeakPut ==
    /\ main_pc = "speak_put"
    /\ speech_queue' = QueuePut(speech_queue, Item(main_text, accepted + 1))
    /\ unfinished_tasks' = unfinished_tasks + 1
    /\ accepted' = accepted + 1
    /\ main_pc' = main_ret
    /\ main_text' = NoneVal
    /\ main_ret' = "none"
    /\ UNCHANGED <<fnVars, capture_requested, last_analysis_text, cap_released,
                   detections, lisVars, ttsVars, flagHist, iterHist,
                   handed, dropped, closeHist>>

\* the order the shutdown protocol of the specification asks for
FinallyOrder_ReleaseLast == <<"put_sentinel", "join", "release", "stopped">>

\* a finally block that waits for the worker before closing the queue
FinallyOrder_JoinFirst == <<"release", "join", "put_sentinel", "stopped">>

\* the order of the finally block, lines 228-232: cap.release() (with
\* destroyAllWindows), speech_queue.put(None), tts_thread.join(), return
FinallyOrder == <<"release", "put_sentinel", "join", "stopped">>

FinallyEntry == FinallyOrder[1]

FinallyNext(pc) ==
    LET i == CHOOSE k \in 1..Len(FinallyOrder) : FinallyOrder[k] = pc
    IN  IF i < Len(FinallyOrder) THEN FinallyOrder[i + 1] ELSE "stopped"

\* lines 159-162: ret, frame = cap.read(); a new iteration starts
MainReadFrame ==
    /\ main_pc = "read_frame"
    /\ main_pc' = "check"
    /\ UNCHANGED <<fnVars, speech_queue, unfinished_tasks, capture_requested,
                   last_analysis_text, cap_released, main_text, main_ret,
                   detections, lisVars, ttsVars, flagHist, iterHist, accepted,
                   handed, dropped, closeHist>>

\* lines 159-162: not ret: "Failed to grab frame", break
MainReadFrameFails ==
    /\ main_pc = "read_frame"
    /\ main_pc' = FinallyEntry
    /\ UNCHANGED <<fnVars, speech_queue, unfinished_tasks, capture_requested,
                   last_analysis_text, cap_released, main_text, main_ret,
                   detections, lisVars, ttsVars, flagHist, iterHist,
                   accepted, handed, dropped, closeHist>>

\* detection on every iteration
ShouldCapture_Always(flag) == TRUE

\* the test of line 170 on the value read
ShouldCapture(flag) == flag

\* line 170: if capture_requested
MainCheck ==
    /\ main_pc = "check"
    /\ iterObserved' = capture_requested
    /\ main_pc' = IF ShouldCapture(capture_requested) THEN "clear" ELSE "waitkey"
    /\ UNCHANGED <<fnVars, speech_queue, unfinished_tasks, capture_requested,
                   last_analysis_text, cap_released, main_text, main_ret,
                   detections, lisVars, ttsVars, flagHist, dets, iterDets,
                   consumed, accepted, handed, dropped, closeHist>>

\* the flag is not cleared
ClearedValue_Stuck == TRUE

\* the value line 171 assigns
ClearedValue == FALSE

\* line 171: capture_requested = False
MainClear ==
    /\ main_pc = "clear"
    /\ capture_requested' = ClearedValue
    /\ consumed' = pending
    /\ pending' = 0
    /\ main_pc' = "infer"
    /\ UNCHANGED <<fnVars, speech_queue, unfinished_tasks, last_analysis_text,
                   cap_released, main_text, main_ret, detections, lisVars,
                   ttsVars, listenerSets, manualSets, dets, iterDets, iterObserved,
                   accepted, handed, dropped, closeHist>>

\* lines 173-191: results = model(frame); the phrases of the confident boxes
MainInfer ==
    /\ main_pc = "infer"
    /\ \E results \in DetectorResults :
           detections' = BuildDetections(results, FrameWidth, FrameHeight)
    /\ dets' = dets + 1
    /\ iterDets' = iterDets + 1
    /\ main_pc' = "caption"
    /\ UNCHANGED <<fnVars, speech_queue, unfinished_tasks, capture_requested,
                   last_analysis_text, cap_released, main_text, main_ret, lisVars, ttsVars, flagHist, iterObserved, consumed, accepted,
                   handed, dropped, closeHist>>

\* line 173: model(frame) raises; no handler but the finally block
MainInferRaises ==
    /\ main_pc = "infer"
    /\ dets' = dets + 1
    /\ iterDets' = iterDets + 1
    /\ main_pc' = FinallyEntry
    /\ UNCHANGED <<fnVars, speech_queue, unfinished_tasks, capture_requested,
                   last_analysis_text, cap_released, main_text, main_ret,
                   detections, lisVars, ttsVars, flagHist, iterObserved,
                   consumed, accepted, handed, dropped, closeHist>>

\* lines 194-201 and 204: the caption is built and speak() is called
MainCaption ==
    /\ main_pc = "caption"
    /\ main_text' = SpokenCaption(detections)
    /\ main_ret' = "set_last"
    /\ main_pc' = "speak_check"
    /\ UNCHANGED <<fnVars, speech_queue, unfinished_tasks, capture_requested,
                   last_analysis_text, cap_released, detections, lisVars,
                   ttsVars, flagHist, iterHist, accepted, handed, dropped,
                   closeHist>>

\* lines 202 and 205: last_analysis_text = ...
MainSetLast ==
    /\ main_pc = "set_last"
    /\ last_analysis_text' = ShownCaption(detections)
    /\ detections' = <<>>
    /\ main_pc' = "waitkey"
    /\ UNCHANGED <<fnVars, speech_queue, unfinished_tasks, capture_requested,
                   cap_released, main_text, main_ret, lisVars, ttsVars,
                   flagHist, iterHist, accepted, handed, dropped, closeHist>>

\* lines 207-221: the overlay is drawn; the key is 'q': break
MainKeyQuit ==
    /\ main_pc = "waitkey"
    /\ main_pc' = FinallyEntry
    /\ IterEnds
    /\ UNCHANGED <<fnVars, speech_queue, unfinished_tasks, capture_requested,
                   last_analysis_text, cap_released, main_text, main_ret,
                   detections, lisVars, ttsVars, flagHist, dets,
                   accepted, handed, dropped, closeHist>>

\* lines 207-223: the overlay is drawn; the key is 'c': capture_requested = True
MainKeyCapture ==
    /\ main_pc = "waitkey"
    /\ manualSets < MaxManual
    /\ capture_requested' = TRUE
    /\ manualSets' = manualSets + 1
    /\ pending' = pending + 1
    /\ main_pc' = "read_frame"
    /\ IterEnds
    /\ UNCHANGED <<fnVars, speech_queue, unfinished_tasks, last_analysis_text,
                   cap_released, main_text, main_ret, detections, lisVars,
                   ttsVars, listenerSets, dets, accepted, handed, dropped,
                   closeHist>>

\* lines 207-223: the overlay is drawn; no key, or another key
MainKeyNone ==
    /\ main_pc = "waitkey"
    /\ main_pc' = "read_frame"
    /\ IterEnds
    /\ UNCHANGED <<fnVars, speech_queue, unfinished_tasks, capture_requested,
                   last_analysis_text, cap_released, main_text, main_ret,
                   detections, lisVars, ttsVars, flagHist, dets,
                   accepted, handed, dropped, closeHist>>

\* the positions of main inside the try block of lines 157-224
InTry ==
    \/ main_pc \in {"read_frame", "check", "clear", "infer", "caption",
                    "set_last", "waitkey"}
    \/ main_pc \in {"speak_check", "speak_put"} /\ main_ret = "set_last"

\* lines 225-226: KeyboardInterrupt anywhere in the try block
MainKeyboardInterrupt ==
    /\ InTry
    /\ main_pc' = FinallyEntry
    /\ main_text' = NoneVal
    /\ main_ret' = "none"
    /\ detections' = <<>>
    /\ IterEnds
    /\ UNCHANGED <<fnVars, speech_queue, unfinished_tasks, capture_requested,
                   last_analysis_text, cap_released, lisVars, ttsVars,
                   flagHist, dets, accepted, handed, dropped, closeHist>>

\* lines 228-229: cap.release(); cv2.destroyAllWindows()
MainRelease ==
    /\ main_pc = "release"
    /\ cap_released' = TRUE
    /\ main_pc' = FinallyNext("release")
    /\ UNCHANGED <<fnVars, speech_queue, unfinished_tasks, capture_requested,
                   last_analysis_text, main_text, main_ret, detections, lisVars, ttsVars, flagHist, iterHist, accepted, handed,
                   dropped, closeHist>>

\* line 230: speech_queue.put(None)
MainPutSentinel ==
    /\ main_pc = "put_sentinel"
    /\ speech_queue' = QueuePut(speech_queue, Item(NoneVal, 0))
    /\ unfinished_tasks' = unfinished_tasks + 1
    /\ sentinel_put' = TRUE
    /\ closeAccepted' = accepted
    /\ pendingAtClose' = Tags(speech_queue)
    /\ main_pc' = FinallyNext("put_sentinel")
    /\ UNCHANGED <<fnVars, capture_requested, last_analysis_text, cap_released,
                   main_text, main_ret, detections, lisVars, ttsVars,
                   flagHist, iterHist, accepted, handed, dropped>>

\* a join that does not wait
JoinReturns_NoWait(worker_pc) == TRUE

\* Thread.join() returns once the thread has terminated
JoinReturns(worker_pc) == worker_pc = "exited"

\* line 231: tts_thread.join()
MainJoin ==
    /\ main_pc = "join"
    /\ JoinReturns(tts_pc)
    /\ main_pc' = FinallyNext("join")
    /\ UNCHANGED <<fnVars, speech_queue, unfinished_tasks, capture_requested,
                   last_analysis_text, cap_released, main_text, main_ret,
                   detections, lisVars, ttsVars, flagHist, iterHist,
                   accepted, handed, dropped, closeHist>>

(***************************************************************************)
(* The specification.                                                      *)
(***************************************************************************)
TtsNext == TtsGet \/ TtsSay \/ TtsSayFails \/ TtsExcept

LisNext ==
    \/ LisMicOpens \/ LisMicFails
    \/ LisListenAudio \/ LisListenTimeout \/ LisListenError \/ LisSleep
    \/ LisRecognize \/ LisUnknownValue \/ LisRequestError \/ LisLogRequestError
    \/ LisRecognizeError
    \/ LisMatch \/ LisSetFlag \/ LisSpeakCheck \/ LisSpeakPut

MainNext ==
    \/ MainStartupPut \/ MainStartListener \/ MainSetup \/ MainSpeakReady
    \/ MainSpeakCheck \/ MainSpeakPut
    \/ MainReadFrame \/ MainReadFrameFails \/ MainCheck \/ MainClear
    \/ MainInfer \/ MainInferRaises \/ MainCaption \/ MainSetLast
    \/ MainKeyQuit \/ MainKeyCapture \/ MainKeyNone \/ MainKeyboardInterrupt
    \/ MainRelease \/ MainPutSentinel \/ MainJoin

Next == TtsNext \/ LisNext \/ MainNext

Spec == Init /\ [][Next]_vars

(***************************************************************************)
(* The program under fair scheduling of the worker thread and of the main  *)
(* thread inside its finally block: the synthesizer calls return (or       *)
(* raise), cap.release() and queue.put() return, and a thread that can     *)
(* take a step is eventually run. Nothing is assumed of the listener.      *)
(***************************************************************************)
MainFinally == MainRelease \/ MainPutSentinel \/ MainJoin

FairSpec == Spec /\ WF_vars(TtsNext) /\ WF_vars(MainFinally)

(***************************************************************************)
(* The caption of one capture taken on its own (lines 173-205): fn_in is   *)
(* the detector's output for the frame, fn_out the locals detections and   *)
(* full_caption / the argument of speak() and last_analysis_text.          *)
(***************************************************************************)
CaptionBoxChoices ==
    { [label |-> "person", xyxy |-> <<0, 0, 3, 4>>, conf |-> 90],
      [label |-> "chair", xyxy |-> <<2, 1, 4, 3>>, conf |-> 51],
      [label |-> "dog", xyxy |-> <<5, 3, 6, 4>>, conf |-> 50],
      [label |-> "cup", xyxy |-> <<4, 1, 6, 2>>, conf |-> 40] }

CaptionResults == SeqsUpTo(CaptionBoxChoices, MaxCaptionBoxes)

CaptionInit ==
    /\ InitProgram
    /\ fn_in \in CaptionResults
    /\ fn_out = [detections |-> <<>>, spoken |-> NoneVal, shown |-> NoneVal]
    /\ fn_pc = "detect"

\* lines 173-191: detections = the phrases of the boxes with conf > 0.5
CapDetect ==
    /\ fn_pc = "detect"
    /\ fn_out' = [fn_out EXCEPT
                    !.detections = BuildDetections(fn_in, FrameWidth, FrameHeight)]
    /\ fn_pc' = "caption"
    /\ UNCHANGED <<fn_in, progVars>>

\* lines 194-205: the text given to speak() and the text of last_analysis_text
CapCaption ==
    /\ fn_pc = "caption"
    /\ fn_out' = [fn_out EXCEPT !.spoken = SpokenCaption(fn_out.detections),
                                !.shown = ShownCaption(fn_out.detections)]
    /\ fn_pc' = "done"
    /\ UNCHANGED <<fn_in, progVars>>

CaptionNext == CapDetect \/ CapCaption

CaptionSpec == CaptionInit /\ [][CaptionNext]_vars

(***************************************************************************)
(* One call of get_spatial_description taken on its own (lines 108-133):   *)
(* fn_in is (box, frame_width, frame_height), fn_out the locals h_pos and  *)
(* proximity. The boxes are any four integers of the range, the extents    *)
(* in either order; a frame may have a zero side.                          *)
(***************************************************************************)
SpatialBoxes ==
    { <<x1, y1, x2, y2>> : x1 \in 0..SpatialWidth, y1 \in 0..SpatialHeight,
                           x2 \in 0..SpatialWidth, y2 \in 0..SpatialHeight }

SpatialFrames ==
    { <<SpatialWidth, SpatialHeight>>, <<0, SpatialHeight>>,
      <<SpatialWidth, 0>>, <<0, 0>> }

SpatialInit ==
    /\ InitProgram
    /\ \E b \in SpatialBoxes, f \in SpatialFrames :
           fn_in = [box |-> b, frame_width |-> f[1], frame_height |-> f[2]]
    /\ fn_out = [h_pos |-> "unset", proximity |-> "unset"]
    /\ fn_pc = "h_pos"

\* line 123 with frame_area = 0 and a box of numpy integers, as main passes
\* it (line 178): the division gives inf, -inf or nan with a warning
\* instead of raising; nan compares False with both thresholds
NumpyZeroFrameProximity(box) ==
    IF BoxArea(box) > 0 THEN "near"
    ELSE IF BoxArea(box) < 0 THEN "far"
    ELSE "at a medium distance"

\* lines 121-131: the outcomes of the proximity code; the division by a
\* zero frame_area raises for Python integers
ProximityOutcomes(box, frame_width, frame_height) ==
    IF FrameArea(frame_width, frame_height) = 0
    THEN {Proximity(box, frame_width, frame_height),
          NumpyZeroFrameProximity(box)}
    ELSE {Proximity(box, frame_width, frame_height)}

\* lines 109-119
SpHorizontal ==
    /\ fn_pc = "h_pos"
    /\ fn_out' = [fn_out EXCEPT !.h_pos = HPos(fn_in.box, fn_in.frame_width)]
    /\ fn_pc' = "proximity"
    /\ UNCHANGED <<fn_in, progVars>>

\* lines 121-133
SpProximity ==
    /\ fn_pc = "proximity"
    /\ \E p \in ProximityOutcomes(fn_in.box, fn_in.frame_width,
                                   fn_in.frame_height) :
           /\ fn_out' = [fn_out EXCEPT !.proximity = p]
           /\ fn_pc' = IF p = "ZeroDivisionError" THEN "raised" ELSE "returned"
    /\ UNCHANGED <<fn_in, progVars>>

SpatialNext == SpHorizontal \/ SpProximity

SpatialSpec == SpatialInit /\ [][SpatialNext]_vars


(***************************************************************************)
(* Properties.                                                             *)
(***************************************************************************)
\* positions of main at which the detection of the iteration, if any, is over
AfterInfer ==
    \/ main_pc \in {"caption", "set_last", "waitkey"}
    \/ main_pc \in {"speak_check", "speak_put"} /\ main_ret = "set_last"

\* C1: the speech queue never holds more than 2 utterances, whatever the
\* interleaving of the offers made through speak() by the listener and by
\* the capture loop.
C1_DepthNeverAboveCap == Len(Utterances(speech_queue)) <= QueueCap

\* C2: a producer never blocks in speak().
C2_NeverBlocks ==
    /\ main_pc = "speak_check" => ENABLED MainSpeakCheck
    /\ main_pc = "speak_put" => ENABLED MainSpeakPut
    /\ lis_pc = "speak_check" => ENABLED LisSpeakCheck
    /\ lis_pc = "speak_put" => ENABLED LisSpeakPut

\* C2: when speak() tests the depth while 2 (or more) items are queued, the
\* text is discarded: the queue keeps the same items in the same order and
\* the caller returns without reaching the put; and speak() never blocks.
C2_DropWhenFull ==
    /\ []C2_NeverBlocks
    /\ [][ /\ ( /\ main_pc = "speak_check"
                /\ main_pc' # "speak_check"
                /\ Len(speech_queue) >= QueueCap )
              => ( /\ speech_queue' = speech_queue
                   /\ main_pc' \in {main_ret, FinallyEntry} )
           /\ ( /\ lis_pc = "speak_check"
                /\ lis_pc' # "speak_check"
                /\ Len(speech_queue) >= QueueCap )
              => ( /\ speech_queue' = speech_queue
                   /\ lis_pc' = "listen" ) ]_vars

C2_Witness ==
    /\ dropped
    /\ lis_pc = "listen"
    /\ listenerSets = 1
    /\ Len(Utterances(speech_queue)) = QueueCap

\* C3: an iteration that finds capture_requested true clears it and runs
\* exactly one detection; the detector is never invoked in an iteration that
\* did not read the flag as true, and never more than once in an iteration.
C3_OneDetectionPerObservedSignal ==
    /\ iterDets <= 1
    /\ iterDets = 1 => iterObserved
    /\ (iterObserved /\ AfterInfer) => iterDets = 1
    /\ (main_pc = "infer" /\ pending = 0) => ~capture_requested

C3_Witness ==
    /\ listenerSets = 1
    /\ manualSets = 0
    /\ main_pc = "waitkey"
    /\ iterObserved
    /\ iterDets = 1
    /\ dets = 1
    /\ ~capture_requested

\* C4: the flag holds no count: it is true exactly when it was set at least
\* once since the last clear, so that two or more sets consumed by one clear
\* give one detection in that iteration, and nothing is left for the next.
C4_SignalsNotQueued ==
    /\ capture_requested <=> pending > 0
    /\ (AfterInfer /\ consumed >= 2) => iterDets = 1

C4_Witness ==
    /\ main_pc = "waitkey"
    /\ consumed = 2
    /\ listenerSets = 1
    /\ manualSets = 1
    /\ iterDets = 1
    /\ dets = 1
    /\ ~capture_requested

\* C5: the detector has been invoked at most as many times as
\* capture_requested has been set to true.
C5_DetectionsAtMostSets == dets <= sets

C5_Witness ==
    /\ dets = 1
    /\ sets = 2
    /\ pending = 0
    /\ main_pc = "stopped"

C7_PendingSpokenBeforeJoinReturns ==
    main_pc = "stopped" => pendingAtClose \subseteq handed

C7_Witness ==
    /\ main_pc = "stopped"
    /\ Cardinality(pendingAtClose) = 1
    /\ pendingAtClose \subseteq handed

\* C8: utterances are handed to the synthesizer in the order they were
\* accepted: the one the worker is about to speak was accepted after every
\* utterance handed over so far.
C8_SpokenInAcceptedOrder ==
    tts_pc = "say" => \A b \in handed : b < tts_id

C8_Witness ==
    /\ tts_pc = "say"
    /\ Cardinality(handed) = 2
    /\ Len(Utterances(speech_queue)) >= 1

\* C9: a synthesizer failure is caught: the worker goes to its handler,
\* marks the item done and returns to the get; it ends only on the sentinel.
C9_SynthFailureNotFatal ==
    /\ [](tts_pc = "exited" => tts_text = NoneVal)
    /\ [][ /\ (tts_pc = "say" /\ tts_pc' # "say") => tts_pc' \in {"get", "except"}
           /\ (tts_pc = "except" /\ tts_pc' # "except")
              => (tts_pc' = "get" /\ unfinished_tasks' = unfinished_tasks - 1)
           /\ (tts_pc # "exited" /\ tts_pc' = "exited")
              => (tts_pc = "get" /\ tts_text' = NoneVal) ]_vars

C9_Witness ==
    /\ tts_pc = "except"
    /\ tts_id \in handed
    /\ Len(Utterances(speech_queue)) >= 1

\* C10: once the microphone failed to open, the listener stays in the
\* no-microphone state: the status keeps its value and the listener never
\* sets capture_requested; the capture loop goes on, the 'c' key sets the
\* flag, and an iteration that finds it set runs the detection.
C10_NoMicrophoneTerminal ==
    /\ [](listening_status = "No Microphone Found" <=> lis_pc = "nomic")
    /\ [](lis_pc = "nomic" => listenerSets = 0)
    /\ []( lis_pc = "nomic" =>
             /\ main_pc = "read_frame" => ENABLED MainReadFrame
             /\ (main_pc = "waitkey" /\ manualSets < MaxManual)
                    => ENABLED MainKeyCapture
             /\ main_pc = "check" => ENABLED MainCheck )
    /\ [][ lis_pc = "nomic" =>
             /\ lis_pc' = "nomic"
             /\ listening_status' = listening_status
             /\ listenerSets' = listenerSets ]_vars

C10_Witness ==
    /\ lis_pc = "nomic"
    /\ listening_status = "No Microphone Found"
    /\ listenerSets = 0
    /\ manualSets = 1
    /\ main_pc = "waitkey"
    /\ iterDets = 1

\* C11: a service error of the speech-to-text call is logged and the
\* listener then goes through a pause before its next listen: from the
\* position where the error is logged it never steps straight to listening;
\* an unrecognized audio and a listen timeout go on without a pause.
C11_PauseAfterServiceError ==
    [][ /\ (lis_pc = "log_request_error" /\ lis_pc' # lis_pc)
              => lis_pc' = "sleep"
        /\ (lis_pc \in {"listen", "recognize"} /\ lis_pc' = "sleep")
              => ~(LisListenTimeout \/ LisUnknownValue) ]_vars

\* the upper-case letters of the model's alphabet
UpperLetters == {"Y", "E", "S", "C", "A", "N"}

\* text holds word at some offset
HasKeyword(text, word) ==
    \E off \in 0..Len(text) :
        /\ off + Len(word) <= Len(text)
        /\ \A k \in 1..Len(word) : text[off + k] = word[k]

KeywordHeard ==
    \E word \in {WordYes, WordCapture, WordScan} : HasKeyword(lis_text, word)

\* C12: for every decoded text, the listener sets capture_requested and
\* offers the acknowledgement through speak() (kept or dropped by the depth
\* test) exactly when the lower-cased text holds "yes", "capture" or "scan"
\* as a substring; for any other text the listener goes back to listening
\* and changes neither the flag nor the queue.
C12_TriggerIffKeyword ==
    /\ [](lis_pc = "match" =>
              \A i \in 1..Len(lis_text) : lis_text[i] \notin UpperLetters)
    /\ [][ (lis_pc = "match" /\ lis_pc' # lis_pc) =>
              /\ lis_pc' = (IF KeywordHeard THEN "set_flag" ELSE "listen")
              /\ capture_requested' = capture_requested
              /\ speech_queue' = speech_queue ]_vars
    /\ [][ (lis_pc = "set_flag" /\ lis_pc' # lis_pc) =>
              /\ capture_requested' = TRUE
              /\ lis_pc' = "speak_check" ]_vars
    /\ [][ (lis_pc = "speak_check" /\ lis_pc' # lis_pc) =>
              /\ lis_pc' = (IF qsize(speech_queue) < QueueCap
                            THEN "speak_put" ELSE "listen")
              /\ speech_queue' = speech_queue ]_vars
    /\ [][ (lis_pc = "speak_put" /\ lis_pc' # lis_pc) =>
              /\ Len(speech_queue') = Len(speech_queue) + 1
              /\ speech_queue'[Len(speech_queue')].text = AckText
              /\ lis_pc' = "listen" ]_vars
    /\ [][ (lis_pc' # lis_pc /\ lis_pc # "set_flag")
              => capture_requested' = capture_requested ]_vars
    /\ [][ (lis_pc' # lis_pc /\ lis_pc # "speak_put")
              => speech_queue' = speech_queue ]_vars

C12_Witness ==
    /\ lis_pc = "speak_put"
    /\ capture_requested = TRUE
    /\ listenerSets = 1
    /\ pending = 1

\* the boxes of the frame whose confidence is strictly above 0.5, in the
\* detector's order, and their number
Surviving == SelectSeq(fn_in, LAMBDA b : b.conf > 50)
SurvivingCount == Cardinality({i \in 1..Len(fn_in) : fn_in[i].conf > 50})

\* C13: a capture with N >= 1 detections above the threshold speaks a
\* summary that starts with "I found N objects. ", N counting every
\* surviving detection, followed by exactly min(N, 3) phrases: those of the
\* first min(N, 3) surviving detections, in the detector's order.
C13_CaptionCountsAllNamesThree ==
    (fn_pc = "done" /\ SurvivingCount >= 1) =>
        /\ fn_out.spoken.kind = "I found"
        /\ fn_out.spoken.n = SurvivingCount
        /\ Len(fn_out.spoken.items)
              = (IF SurvivingCount <= 3 THEN SurvivingCount ELSE 3)
        /\ \A k \in 1..Len(fn_out.spoken.items) :
              /\ fn_out.spoken.items[k].label = Surviving[k].label
              /\ fn_out.spoken.items[k].where
                    = get_spatial_description(Surviving[k].xyxy,
                                              FrameWidth, FrameHeight)

C13_Witness ==
    /\ fn_pc = "done"
    /\ Len(fn_in) = 5
    /\ SurvivingCount = 4
    /\ fn_in[1].conf = 50
    /\ fn_out.spoken.n = 4
    /\ Len(fn_out.spoken.items) = 3

\* main is in the speak() call of the summary
OfferingSummary == main_pc = "speak_check" /\ main_ret = "set_last"
\* main assigns last_analysis_text after the summary
SetsLastText == main_pc = "set_last" /\ main_pc' = "waitkey"

\* C14 as claimed: a capture with no detection above the threshold offers
\* the fixed no-objects message for speech, and the text displayed after
\* that iteration is that same message.
C14_ShownIsSpokenMessage ==
    /\ []((OfferingSummary /\ detections = <<>>) => main_text = NoObjectsText)
    /\ [][ (SetsLastText /\ detections = <<>>)
              => last_analysis_text' = NoObjectsText ]_vars

\* C14, amended: a capture with no detection above the threshold offers the
\* fixed no-objects message for speech and displays the shorter fixed text
\* "No objects found."; a capture with detections displays the summary it
\* offered for speech.
C14_ShownNoObjectsText ==
    /\ []((OfferingSummary /\ detections = <<>>) => main_text = NoObjectsText)
    /\ [][ (SetsLastText /\ detections = <<>>)
              => /\ last_analysis_text' = Utt("No objects found.")
                 /\ last_analysis_text' # NoObjectsText ]_vars
    /\ []((OfferingSummary /\ detections # <<>>)
              => main_text = FullCaption(detections))
    /\ [][ (SetsLastText /\ detections # <<>>)
              => last_analysis_text' = FullCaption(detections) ]_vars

C14_Witness ==
    /\ main_pc = "waitkey"
    /\ iterDets = 1
    /\ last_analysis_text = Utt("No objects found.")
    /\ accepted >= 2

\* twice the x-coordinate of the centre of the box of the call
TwiceCentreX == fn_in.box[1] + fn_in.box[3]
HPosDone == fn_pc \in {"proximity", "returned", "raised"}

\* C15: the object is "on the left" exactly when its centre x is strictly
\* below a third of the frame width, "on the right" exactly when it is
\* strictly above two thirds, and "in the center" otherwise; a centre on
\* either boundary is "in the center". (centre < W/3 is 3 * 2centre < 2W.)
C15_HorizontalThirds ==
    HPosDone =>
        /\ fn_out.h_pos = "on the left"
              <=> 3 * TwiceCentreX < 2 * fn_in.frame_width
        /\ fn_out.h_pos = "on the right"
              <=> 3 * TwiceCentreX > 4 * fn_in.frame_width
        /\ fn_out.h_pos = "in the center"
              <=> /\ 3 * TwiceCentreX >= 2 * fn_in.frame_width
                  /\ 3 * TwiceCentreX <= 4 * fn_in.frame_width
        /\ ( \/ 3 * TwiceCentreX = 2 * fn_in.frame_width
              \/ 3 * TwiceCentreX = 4 * fn_in.frame_width )
              => fn_out.h_pos = "in the center"

C15_Witness ==
    /\ fn_pc = "returned"
    /\ fn_in.frame_width > 0
    /\ 3 * TwiceCentreX = 4 * fn_in.frame_width
    /\ fn_out.h_pos = "in the center"

\* the arguments of the call, as areas
CallBoxArea ==
    (fn_in.box[3] - fn_in.box[1]) * (fn_in.box[4] - fn_in.box[2])
CallFrameArea == fn_in.frame_width * fn_in.frame_height
WellFormedCall ==
    /\ fn_in.box[3] > fn_in.box[1]
    /\ fn_in.box[4] > fn_in.box[2]
    /\ fn_in.frame_width > 0
    /\ fn_in.frame_height > 0

\* C16: for a well-formed box and frame the object is "near" exactly when
\* box area / frame area is strictly above 0.15, "far" exactly when it is
\* strictly below 0.05, and "at a medium distance" otherwise; a ratio of
\* exactly 0.05 or 0.15 is "at a medium distance".
C16_ProximityThresholds ==
    (fn_pc \in {"returned", "raised"} /\ WellFormedCall) =>
        /\ fn_pc = "returned"
        /\ fn_out.proximity = "near" <=> 100 * CallBoxArea > 15 * CallFrameArea
        /\ fn_out.proximity = "far" <=> 100 * CallBoxArea < 5 * CallFrameArea
        /\ fn_out.proximity = "at a medium distance"
              <=> /\ 100 * CallBoxArea >= 5 * CallFrameArea
                  /\ 100 * CallBoxArea <= 15 * CallFrameArea

C16_Witness ==
    /\ fn_pc = "returned"
    /\ WellFormedCall
    /\ 100 * CallBoxArea = 15 * CallFrameArea
    /\ fn_out.proximity = "at a medium distance"

\* C17: get_spatial_description never raises, and whenever the area
\* computation is invalid (a box of zero or negative width or height, both
\* extents inverted included, or a frame of zero area) the proximity is
\* "far".
C17_InvalidAreaIsFar ==
    ( /\ fn_pc \in {"returned", "raised"}
      /\ \/ fn_in.box[3] <= fn_in.box[1]
         \/ fn_in.box[4] <= fn_in.box[2]
         \/ CallFrameArea = 0 )
        => /\ fn_pc = "returned"
           /\ fn_out.proximity = "far"

\* C18: no utterance is accepted into the queue behind the sentinel: once
\* main has put the sentinel no speak() call adds an item, so that when the
\* worker has exited on the sentinel the queue is empty and every accepted
\* utterance has been handed to the synthesizer.
C18_NothingBehindSentinel ==
    /\ \A i \in 1..Len(speech_queue) :
           speech_queue[i].text = NoneVal => i = Len(speech_queue)
    /\ sentinel_put => accepted = closeAccepted
    /\ tts_pc = "exited" =>
           /\ speech_queue = <<>>
           /\ handed = 1..accepted

\* main has made the speak() call of the summary of its latest detection
SummaryOffered ==
    \/ main_pc = "set_last"
    \/ main_pc = "speak_put" /\ main_ret = "set_last"

\* C19: for a capture triggered by voice, the listener offers its
\* acknowledgement to the queue before the capture loop offers the summary
\* of the capture that this trigger caused. Stated for the states where
\* every trigger so far was a voice trigger and each has had its capture:
\* when the summary of the latest capture has been offered, the listener
\* is not still ahead of the speak() call of the latest trigger.
C19_AckBeforeSummary ==
    ( /\ manualSets = 0
      /\ listenerSets >= 1
      /\ dets = listenerSets
      /\ SummaryOffered )
        => lis_pc # "speak_check"

\* main has left the capture loop and is in the finally block
LoopLeft == main_pc \in {"release", "put_sentinel", "join"}

\* C20: once the capture loop has been left, shutdown completes: the worker
\* eventually takes the sentinel and exits and tts_thread.join() eventually
\* returns, whatever the queue holds and whatever the listener does.
C20_ShutdownCompletes ==
    /\ LoopLeft ~> tts_pc = "exited"
    /\ LoopLeft ~> main_pc = "stopped"

C20_Witness ==
    /\ main_pc = "stopped"
    /\ tts_pc = "exited"
    /\ closeAccepted >= 2
    /\ lis_pc = "speak_check"
    /\ listenerSets = 1

====
